---- MODULE Spec2Model ----
(***************************************************************************)
(* GaMMA association service (gamma/app.py): the two request handlers      *)
(* /predict_stream and /predict, the configuration completion they rely    *)
(* on, and the Kafka producer set up when the module is loaded.            *)
(*                                                                         *)
(* Numbers are fixed point: degrees in 1/1000 degree, degree2km in 1/1000  *)
(* km per degree, so a projected x(km)/y(km) is in 1e-6 km.  Inputs are    *)
(* chosen so that every mean and every quotient the code takes is exact.   *)
(*                                                                         *)
(* A pick table is kept run-length encoded: a block is n consecutive rows  *)
(* with the same timestamp, "first" is the DataFrame index of its first    *)
(* row.  A block with n = 1 is an ordinary row.                            *)
(***************************************************************************)
EXTENDS Integers, Sequences, FiniteSets, TLC

VARIABLES
    pc,           \* position of the process / of the running handler
    producer,     \* module-level name `producer`: "undefined" or the producer bound to it
    bus,          \* messages producer.send accepted, in order
    route,        \* "none", "stream" (GET /predict_stream) or "predict" (POST /predict)
    dataPicks,    \* request body: data.picks
    dataStations, \* request body: data.stations
    inputConfig,  \* request body: data.config as it was received (history)
    heap,         \* dict objects: heap[DataRef] is the object data.config
    configRef,    \* the handler's local name `config`: the object it refers to
    stations,     \* the handler's station DataFrame
    picks,        \* the handler's pick DataFrame
    hours,        \* hour buckets the for-loop has still to visit
    event_idx0,   \* current earthquake index
    catalogs,     \* accumulated catalog rows
    assignments,  \* accumulated assignment rows
    calls,        \* log of the association() calls of this run
    handed,       \* messages handed to producer.send, in order
    response,     \* what the handler returned
    error         \* the exception that left the handler, "" if none

vars == <<pc, producer, bus, route, dataPicks, dataStations, inputConfig, heap,
          configRef, stations, picks, hours, event_idx0, catalogs, assignments,
          calls, handed, response, error>>

----------------------------------------------------------------------------
(* Bounds of the model *)

MaxRows == 3
MaxEvents == 2
MaxStations == 2

(* Program constants *)

CHUNK_LIMIT == 5000
DEFAULT_DEGREE2KM == 111195
DEFAULT_DBSCAN_EPS == 6
DEFAULT_DBSCAN_MIN_SAMPLES == 3
DEFAULT_OVERSAMPLE_FACTOR == 10
DEFAULT_MIN_PICKS_PER_EQ == 10
DEFAULT_Z_MAX == 41

----------------------------------------------------------------------------
(* Small helpers *)

SetMin(S) == CHOOSE x \in S : \A y \in S : x <= y
SetMax(S) == CHOOSE x \in S : \A y \in S : x >= y

RECURSIVE SumSeq(_)
SumSeq(s) == IF s = <<>> THEN 0 ELSE Head(s) + SumSeq(Tail(s))

Range(s) == {s[i] : i \in DOMAIN s}

EmptyDict == [k \in {} |-> 0]

\* d[k] = v
Put(d, k, v) == [x \in (DOMAIN d) \cup {k} |-> IF x = k THEN v ELSE d[x]]

\* if k not in d: d[k] = v
SetDefault(d, k, v) == IF k \in DOMAIN d THEN d ELSE Put(d, k, v)

\* np.mean of a list
Mean(s) == SumSeq(s) \div Len(s)

----------------------------------------------------------------------------
(* Configuration completion *)

DefaultDims == <<"x(km)", "y(km)", "z(km)">>

default_config_eps5(config) ==
    LET c1 == SetDefault(config, "degree2km", DEFAULT_DEGREE2KM)
        c2 == SetDefault(c1, "use_amplitude", TRUE)
        c3 == SetDefault(c2, "use_dbscan", TRUE)
        c4 == SetDefault(c3, "dbscan_eps", DEFAULT_DBSCAN_EPS - 1)
        c5 == SetDefault(c4, "dbscan_min_samples", DEFAULT_DBSCAN_MIN_SAMPLES)
        c6 == SetDefault(c5, "oversample_factor", DEFAULT_OVERSAMPLE_FACTOR)
        c7 == SetDefault(c6, "min_picks_per_eq", DEFAULT_MIN_PICKS_PER_EQ)
    IN  SetDefault(c7, "dims", DefaultDims)

default_config(config) ==
    LET c1 == SetDefault(config, "degree2km", DEFAULT_DEGREE2KM)
        c2 == SetDefault(c1, "use_amplitude", TRUE)
        c3 == SetDefault(c2, "use_dbscan", TRUE)
        c4 == SetDefault(c3, "dbscan_eps", DEFAULT_DBSCAN_EPS)
        c5 == SetDefault(c4, "dbscan_min_samples", DEFAULT_DBSCAN_MIN_SAMPLES)
        c6 == SetDefault(c5, "oversample_factor", DEFAULT_OVERSAMPLE_FACTOR)
        c7 == SetDefault(c6, "min_picks_per_eq", DEFAULT_MIN_PICKS_PER_EQ)
    IN  SetDefault(c7, "dims", DefaultDims)

DataRef == "data.config"
CopyRef == "copy"

\* a default_config that completes a copy and leaves its argument alone
CallDefaultConfig_copy(h, ref) ==
    [heap |-> [h EXCEPT ![CopyRef] = default_config(h[ref])], ret |-> CopyRef]

\* config = default_config(config): the dict is completed in place and the
\* same object is returned
CallDefaultConfig(h, ref) ==
    [heap |-> [h EXCEPT ![ref] = default_config(h[ref])], ret |-> ref]

\* columns of pd.DataFrame(list of dicts)
Columns(rows) == UNION {DOMAIN rows[i] : i \in DOMAIN rows}

ColumnValues(rows, col) == {rows[i][col] : i \in DOMAIN rows}

\* the centre taken as the lower bound of each axis instead of its mean
Center_lower(xlim, ylim) == <<xlim[1], ylim[1]>>

\* [np.mean(config["xlim_degree"]), np.mean(config["ylim_degree"])]
Center(xlim, ylim) == <<Mean(xlim), Mean(ylim)>>

\* (np.array(lim) - c) * degree2km
Project(lim, c, degree2km) == [i \in DOMAIN lim |-> (lim[i] - c) * degree2km]

\* the geometry-derived entries of /predict
FillGeometry(config, st) ==
    LET c1 == SetDefault(config, "xlim_degree",
                  <<SetMin(ColumnValues(st, "longitude")),
                    SetMax(ColumnValues(st, "longitude"))>>)
        c2 == SetDefault(c1, "ylim_degree",
                  <<SetMin(ColumnValues(st, "latitude")),
                    SetMax(ColumnValues(st, "latitude"))>>)
        c3 == SetDefault(c2, "center", Center(c2["xlim_degree"], c2["ylim_degree"]))
        c4 == SetDefault(c3, "x(km)",
                  Project(c3["xlim_degree"], c3["center"][1], c3["degree2km"]))
        c5 == SetDefault(c4, "y(km)",
                  Project(c4["ylim_degree"], c4["center"][2], c4["degree2km"]))
        c6 == SetDefault(c5, "z(km)", <<0, DEFAULT_Z_MAX>>)
    IN  SetDefault(c6, "bfgs_bounds",
            [i \in DOMAIN c6["dims"] |-> c6[c6["dims"][i]]] \o <<<<"None", "None">>>>)

\* stations["x(km)"], ["y(km)"], ["z(km)"]: z(km) in 1/1000 km
ProjectStations(st, config) ==
    [i \in DOMAIN st |->
        Put(Put(Put(st[i],
            "x(km)", (st[i]["longitude"] - config["center"][1]) * config["degree2km"]),
            "y(km)", (st[i]["latitude"] - config["center"][2]) * config["degree2km"]),
            "z(km)", 0 - st[i]["elevation(m)"])]

----------------------------------------------------------------------------
(* Timestamps.  The text of a timestamp is <<day, hour, minute>>; a parsed  *)
(* datetime is a number of minutes.                                        *)

\* datetime.strptime(x, "%Y-%m-%dT%H:%M:%S.%f")
Strptime(text) == (text[1] * 24 + text[2]) * 60 + text[3]

\* x.strftime("%Y-%m-%dT%H"): the text <<day, hour>>
HourKey(t) == <<t \div 1440, (t \div 60) % 24>>

\* x.strftime("%Y-%m-%dT%H:%M:%S.%f")[:-3]
Strftime(t) == <<t \div 1440, (t \div 60) % 24, t % 60>>

\* order of two hour texts as Python compares strings of fixed-width fields
KeyLess(a, b) == a[1] < b[1] \/ (a[1] = b[1] /\ a[2] < b[2])

\* sorted(list(set(picks["time_idx"])))
RECURSIVE SortedKeys(_)
SortedKeys(S) ==
    IF S = {} THEN <<>>
    ELSE LET m == CHOOSE a \in S : \A b \in S \ {a} : KeyLess(a, b)
         IN  <<m>> \o SortedKeys(S \ {m})

----------------------------------------------------------------------------
(* Pick tables *)

RECURSIVE RowsBefore(_, _)
RowsBefore(list, i) == IF i <= 1 THEN 0 ELSE list[i - 1].n + RowsBefore(list, i - 1)

\* pd.DataFrame(data.picks): a RangeIndex, the columns are the keys of the dicts
PickFrame(list) ==
    [columns |-> IF list = <<>> THEN {} ELSE {"timestamp"},
     rows |-> [i \in DOMAIN list |->
                 [first |-> RowsBefore(list, i), n |-> list[i].n,
                  timestamp |-> list[i].timestamp]]]

\* len(picks)
NRows(rows) == SumSeq([i \in DOMAIN rows |-> rows[i].n])

\* picks["timestamp"].apply(strptime)
ParseTimestamps(rows) ==
    [i \in DOMAIN rows |-> [rows[i] EXCEPT !.timestamp = Strptime(rows[i].timestamp)]]

\* picks["time_idx"] = picks["timestamp"].apply(strftime to the hour)
WithTimeIdx(rows) ==
    [i \in DOMAIN rows |->
        [first |-> rows[i].first, n |-> rows[i].n, timestamp |-> rows[i].timestamp,
         time_idx |-> HourKey(rows[i].timestamp)]]

\* picks[picks["time_idx"] == hour]: the rows keep their index
RowsOfHour(rows, hour) == SelectSeq(rows, LAMBDA r : r.time_idx = hour)

\* the single-chunk test widened to the limit itself
SingleChunk_le(n) == n > 0 /\ n <= CHUNK_LIMIT

\* (len(picks) > 0) and (len(picks) < 5000)
SingleChunk(n) == n > 0 /\ n < CHUNK_LIMIT

\* an offset that is not advanced by the chunk's events
NextOffset_stuck(offset, catalog) == offset

\* event_idx0 += len(catalog)
NextOffset(offset, catalog) == offset + Len(catalog)

----------------------------------------------------------------------------
(* The association() collaborator (gamma.utils): what one call may return.  *)
(* Its events are numbered from the offset it is given; a pick of the chunk *)
(* is assigned to at most one of them.                                      *)

Candidates(chunk) ==
    IF chunk = <<>> THEN {}
    ELSE {chunk[1].first, chunk[Len(chunk)].first + chunk[Len(chunk)].n - 1}

RawEvent(chunk, offset, j, config) ==
    LET idx == offset + j - 1
    IN  [time_s |-> chunk[1].timestamp * 60 + j,
         x |-> (idx + 1) * config["degree2km"],
         y |-> (0 - idx) * config["degree2km"],
         z |-> idx + 5,
         magnitude |-> j,
         covariance |-> <<<<100 + idx, 10 + j>>, <<10 + j, 200 + idx>>>>,
         issued |-> idx]

RECURSIVE SeqOfSet(_)
SeqOfSet(S) == IF S = {} THEN <<>> ELSE <<SetMin(S)>> \o SeqOfSet(S \ {SetMin(S)})

AssociationResult(chunk, offset, n, assigned, config) ==
    LET who == SeqOfSet(assigned)
    IN  [catalog |-> [j \in 1..n |-> RawEvent(chunk, offset, j, config)],
         assignments |-> [k \in DOMAIN who |->
                            [pick_idx |-> who[k],
                             event_idx |-> offset + n - 1 - ((k - 1) % n),
                             prob_gmma |-> 900 - k]]]

AssociationResults(chunk, offset, config) ==
    {AssociationResult(chunk, offset, 0, {}, config)} \cup
    {AssociationResult(chunk, offset, n, a, config) :
        n \in 1..MaxEvents, a \in SUBSET Candidates(chunk)}

\* from_seconds (gamma.utils): seconds to the text <<day, hour, minute, second>>
from_seconds(s) == <<s \div 86400, (s \div 3600) % 24, (s \div 60) % 60, s % 60>>

----------------------------------------------------------------------------
(* Catalog assembly *)

\* f"{x[0][0]:.3f},{x[1][1]:.3f},{x[0][1]:.3f}" or f"{x[0][0]:.3f}"
FormatCovariance(cov, use_amplitude) ==
    IF use_amplitude THEN <<cov[1][1], cov[2][2], cov[1][2]>> ELSE <<cov[1][1]>>

CatalogRecord(raw, config) ==
    [time |-> from_seconds(raw.time_s),
     magnitude |-> raw.magnitude,
     longitude |-> raw.x \div config["degree2km"] + config["center"][1],
     latitude |-> raw.y \div config["degree2km"] + config["center"][2],
     depth_m |-> raw.z * 1000,
     covariance |-> FormatCovariance(raw.covariance, config["use_amplitude"])]

\* /predict_stream: the records of catalogs.to_dict(orient='records')
StreamCatalog(raws, config) == [i \in DOMAIN raws |-> CatalogRecord(raws[i], config)]

\* /predict: the catalog with catalogs["event_idx"] = range(event_idx0)
PredictCatalog(raws, config) ==
    [i \in DOMAIN raws |->
        [time |-> CatalogRecord(raws[i], config).time,
         magnitude |-> CatalogRecord(raws[i], config).magnitude,
         longitude |-> CatalogRecord(raws[i], config).longitude,
         latitude |-> CatalogRecord(raws[i], config).latitude,
         depth_m |-> CatalogRecord(raws[i], config).depth_m,
         covariance |-> CatalogRecord(raws[i], config).covariance,
         event_idx |-> i - 1]]

----------------------------------------------------------------------------
(* The join of the assignments onto the picks *)

AssignedIdx(asg) == {asg[i].pick_idx : i \in DOMAIN asg}

RECURSIVE JoinBlock(_, _, _, _)
JoinBlock(first, n, ts, asg) ==
    IF n = 0 THEN <<>>
    ELSE LET m == SelectSeq(asg, LAMBDA a : a.pick_idx = first)
         IN  IF m # <<>>
             THEN [i \in DOMAIN m |->
                     [first |-> first, n |-> 1, timestamp |-> ts, na |-> FALSE,
                      event_idx |-> m[i].event_idx, prob_gmma |-> m[i].prob_gmma]]
                  \o JoinBlock(first + 1, n - 1, ts, asg)
             ELSE LET later == {p \in AssignedIdx(asg) : p > first /\ p < first + n}
                      len == IF later = {} THEN n ELSE SetMin(later) - first
                  IN  <<[first |-> first, n |-> len, timestamp |-> ts, na |-> TRUE,
                         event_idx |-> 0, prob_gmma |-> 0]>>
                      \o JoinBlock(first + len, n - len, ts, asg)

\* picks.join(assignments.set_index("pick_idx")): a left join on the index
RECURSIVE LeftJoin(_, _)
LeftJoin(rows, asg) ==
    IF rows = <<>> THEN <<>>
    ELSE JoinBlock(rows[1].first, rows[1].n, rows[1].timestamp, asg)
         \o LeftJoin(Tail(rows), asg)

\* .fillna(-1).astype({'event_idx': int})
FillNa(rows) ==
    [i \in DOMAIN rows |->
        IF rows[i].na
        THEN [rows[i] EXCEPT !.na = FALSE, !.event_idx = -1, !.prob_gmma = -1]
        ELSE rows[i]]

\* a join that keeps only the picks that have an assignment
PicksGamma_inner(rows, asg) ==
    LET joined == SelectSeq(LeftJoin(rows, asg), LAMBDA r : ~r.na)
    IN  [i \in DOMAIN joined |->
            [first |-> joined[i].first, n |-> joined[i].n,
             timestamp |-> Strftime(joined[i].timestamp),
             event_idx |-> joined[i].event_idx, prob_gmma |-> joined[i].prob_gmma]]

\* picks_gamma: the join, the timestamps written back as text, time_idx dropped
PicksGamma(rows, asg) ==
    LET joined == FillNa(LeftJoin(rows, asg))
    IN  [i \in DOMAIN joined |->
            [first |-> joined[i].first, n |-> joined[i].n,
             timestamp |-> Strftime(joined[i].timestamp),
             event_idx |-> joined[i].event_idx, prob_gmma |-> joined[i].prob_gmma]]

----------------------------------------------------------------------------
(* Module-level state of the service: the configuration and the stations   *)
(* read when the module is loaded.  The centre, the limits and degree2km   *)
(* stand for the contents of the pickled configuration; dbscan_eps, which  *)
(* only association() reads, is left out.                                  *)

Station(lon, lat, elev) ==
    [k \in {"longitude", "latitude", "elevation(m)"} |->
        IF k = "longitude" THEN lon ELSE IF k = "latitude" THEN lat ELSE elev]

StationNoElevation(lon, lat) ==
    [k \in {"longitude", "latitude"} |-> IF k = "longitude" THEN lon ELSE lat]

PickledConfig ==
    [k \in {"center", "degree2km", "xlim_degree", "ylim_degree"} |->
        CASE k = "center" -> <<-155320, 19390>>
          [] k = "degree2km" -> 111195
          [] k = "xlim_degree" -> <<-156320, -154320>>
          [] k = "ylim_degree" -> <<18390, 20390>>]

GlobalStationRows == <<Station(-155500, 19200, 1200), Station(-155100, 19600, 300)>>

GlobalConfig ==
    LET c0 == PickledConfig
        c1 == Put(Put(Put(c0, "dims", DefaultDims), "use_dbscan", TRUE), "use_amplitude", TRUE)
        c2 == Put(c1, "x(km)", Project(c1["xlim_degree"], c1["center"][1], c1["degree2km"]))
        c3 == Put(c2, "y(km)", Project(c2["ylim_degree"], c2["center"][2], c2["degree2km"]))
        c4 == Put(c3, "z(km)", <<0, 40>>)
        c5 == Put(c4, "bfgs_bounds",
                  <<<<c4["x(km)"][1] - 1, c4["x(km)"][2] + 1>>,
                    <<c4["y(km)"][1] - 1, c4["y(km)"][2] + 1>>,
                    <<0, c4["z(km)"][2] + 1>>,
                    <<"None", "None">>>>)
        c6 == Put(c5, "dbscan_min_samples", SetMin({Len(GlobalStationRows), 3}))
        c7 == Put(c6, "min_picks_per_eq", SetMin({Len(GlobalStationRows) \div 2, 10}))
    IN  Put(c7, "oversample_factor", SetMin({Len(GlobalStationRows) \div 2, 10}))

GlobalStations == ProjectStations(GlobalStationRows, GlobalConfig)

----------------------------------------------------------------------------
(* Request bodies *)

Timestamps == {<<0, 23, 30>>, <<1, 0, 10>>, <<1, 0, 50>>, <<1, 1, 20>>}

\* data.picks: up to MaxRows blocks, the first of one row or of CHUNK_LIMIT - 1
PickInputs ==
    {[i \in 1..k |-> [n |-> IF i = 1 THEN b ELSE 1, timestamp |-> l[i]]] :
        <<k, l, b>> \in {<<k, l, b>> \in (0..MaxRows) \X
                            (UNION {[1..j -> Timestamps] : j \in 0..MaxRows}) \X
                            {1, CHUNK_LIMIT - 1} : Len(l) = k}}

\* len(data.picks)
ListLen(list) == SumSeq([i \in DOMAIN list |-> list[i].n])

FullStations == {Station(-156000, 19000, 1200), Station(-154000, 20000, 300)}

\* data.stations: complete tables, the empty table, a table without elevation
StationInputs ==
    (UNION {[1..k -> FullStations] : k \in 1..MaxStations})
    \cup {<<>>, <<StationNoElevation(-155000, 19400)>>}

DefaultKeys == {"degree2km", "use_amplitude", "use_dbscan", "dbscan_eps",
                "dbscan_min_samples", "oversample_factor", "min_picks_per_eq", "dims"}
BoundKeys == {"xlim_degree", "ylim_degree", "center"}
LocalKeys == {"x(km)", "y(km)", "z(km)", "bfgs_bounds"}

\* the value a caller supplies for each key it handed
CallerConfig ==
    [k \in DefaultKeys \cup BoundKeys \cup LocalKeys |->
        CASE k = "degree2km" -> 100000
          [] k = "use_amplitude" -> FALSE
          [] k = "use_dbscan" -> FALSE
          [] k = "dbscan_eps" -> 8
          [] k = "dbscan_min_samples" -> 2
          [] k = "oversample_factor" -> 5
          [] k = "min_picks_per_eq" -> 4
          [] k = "dims" -> <<"y(km)", "x(km)", "z(km)">>
          [] k = "xlim_degree" -> <<-157000, -155000>>
          [] k = "ylim_degree" -> <<18000, 21000>>
          [] k = "center" -> <<-155600, 19200>>
          [] k = "x(km)" -> <<-50, 50>>
          [] k = "y(km)" -> <<-60, 60>>
          [] k = "z(km)" -> <<0, 20>>
          [] k = "bfgs_bounds" -> <<<<-51, 51>>, <<-61, 61>>, <<0, 21>>, <<"None", "None">>>>]

Restrict(d, K) == [k \in K |-> d[k]]

\* data.config: any subset of the keys, the local-frame keys sent together
ConfigInputs ==
    {Restrict(CallerConfig, K \cup L) :
        K \in SUBSET (DefaultKeys \cup BoundKeys), L \in {{}, LocalKeys}}

\* the configuration and the stations the whole pipeline is run with: some
\* parameters sent, the others to be filled in
MainConfigs == {Restrict(CallerConfig, {"use_amplitude", "center"})}
MainStations == {<<Station(-156000, 19000, 1200), Station(-154000, 20000, 300)>>}

----------------------------------------------------------------------------
(* State *)

NoResponse == [kind |-> "none", catalog |-> <<>>, picks |-> <<>>]
NoFrame == [columns |-> {}, rows |-> <<>>]

Blank ==
    /\ bus = <<>>
    /\ stations = <<>>
    /\ picks = NoFrame
    /\ hours = <<>>
    /\ event_idx0 = 0
    /\ catalogs = <<>>
    /\ assignments = <<>>
    /\ calls = <<>>
    /\ handed = <<>>
    /\ response = NoResponse
    /\ error = ""

Init ==
    /\ pc = "boot_k8s"
    /\ producer = "undefined"
    /\ route = "none"
    /\ dataPicks = <<>>
    /\ dataStations = <<>>
    /\ inputConfig = EmptyDict
    /\ heap = [r \in {DataRef, CopyRef} |-> EmptyDict]
    /\ configRef = DataRef
    /\ Blank

\* the uncaught exception leaves the handler
Raise(e) == pc' = "raised" /\ error' = e

----------------------------------------------------------------------------
(* Loading the module: the producer *)

ConnectK8s ==
    /\ pc = "boot_k8s"
    /\ \/ producer' = "connected" /\ pc' = "idle"
       \/ producer' = producer /\ pc' = "boot_local"
    /\ UNCHANGED <<bus, route, dataPicks, dataStations, inputConfig, heap, configRef,
                   stations, picks, hours, event_idx0, catalogs, assignments, calls,
                   handed, response, error>>

ConnectLocal ==
    /\ pc = "boot_local"
    /\ \/ producer' = "connected"
       \/ producer' = producer
    /\ pc' = "idle"
    /\ UNCHANGED <<bus, route, dataPicks, dataStations, inputConfig, heap, configRef,
                   stations, picks, hours, event_idx0, catalogs, assignments, calls,
                   handed, response, error>>

----------------------------------------------------------------------------
(* Requests *)

ReceiveStream ==
    /\ pc = "idle"
    /\ \E p \in PickInputs : dataPicks' = p
    /\ route' = "stream"
    /\ pc' = "s_start"
    /\ UNCHANGED <<producer, bus, dataStations, inputConfig, heap, configRef, stations,
                   picks, hours, event_idx0, catalogs, assignments, calls, handed,
                   response, error>>

ReceivePredict ==
    /\ pc = "idle"
    /\ \E p \in PickInputs, st \in MainStations, c \in MainConfigs :
          /\ dataPicks' = p
          /\ dataStations' = st
          /\ inputConfig' = c
          /\ heap' = [heap EXCEPT ![DataRef] = c]
    /\ route' = "predict"
    /\ pc' = "p_parse"
    /\ UNCHANGED <<producer, bus, configRef, stations, picks, hours, event_idx0,
                   catalogs, assignments, calls, handed, response, error>>

----------------------------------------------------------------------------
(* association() raising: nothing in either handler catches it *)

OnAssociationError_swallow(resume) == resume

OnAssociationError(resume) == "raised"

\* one entry of the call log: the chunk and the offset passed, whether the call
\* returned, and what the handler kept of its result (/predict_stream drops
\* the assignments: `catalogs, _ = association(...)`)
Call(chunk, offset, ok, catalog, asg) ==
    [picks |-> chunk, offset |-> offset, ok |-> ok, catalog |-> catalog,
     assignments |-> asg]

HoursOf(rows) == {rows[i].time_idx : i \in DOMAIN rows}

----------------------------------------------------------------------------
(* GET /predict_stream *)

StreamStart ==
    /\ pc = "s_start"
    /\ IF ListLen(dataPicks) = 0
       THEN /\ response' = [kind |-> "list", catalog |-> <<>>, picks |-> <<>>]
            /\ pc' = "done"
            /\ UNCHANGED <<picks, hours, event_idx0, catalogs>>
       ELSE LET df == PickFrame(dataPicks)
                rows == ParseTimestamps(df.rows)
            IN  /\ event_idx0' = 0
                /\ response' = response
                /\ IF SingleChunk(NRows(rows))
                   THEN /\ picks' = [columns |-> df.columns, rows |-> rows]
                        /\ pc' = "s_single"
                        /\ UNCHANGED <<hours, catalogs>>
                   ELSE /\ catalogs' = <<>>
                        /\ picks' = [columns |-> df.columns \cup {"time_idx"},
                                     rows |-> WithTimeIdx(rows)]
                        /\ hours' = SortedKeys(HoursOf(WithTimeIdx(rows)))
                        /\ pc' = IF hours' = <<>> THEN "s_assemble" ELSE "s_loop"
    /\ UNCHANGED <<producer, bus, route, dataPicks, dataStations, inputConfig, heap,
                   configRef, stations, assignments, calls, handed, error>>

StreamAssociateAll ==
    /\ pc = "s_single"
    /\ \/ \E r \in AssociationResults(picks.rows, event_idx0, GlobalConfig) :
            /\ calls' = Append(calls, Call(picks.rows, event_idx0, TRUE, r.catalog, <<>>))
            /\ catalogs' = r.catalog
            /\ event_idx0' = NextOffset(event_idx0, r.catalog)
            /\ pc' = "s_assemble"
            /\ error' = error
       \/ /\ calls' = Append(calls, Call(picks.rows, event_idx0, FALSE, <<>>, <<>>))
          /\ pc' = OnAssociationError("s_assemble")
          /\ error' = IF pc' = "raised" THEN "AssociationError" ELSE error
          /\ UNCHANGED <<catalogs, event_idx0>>
    /\ UNCHANGED <<producer, bus, route, dataPicks, dataStations, inputConfig, heap,
                   configRef, stations, picks, hours, assignments, handed, response>>

StreamAssociateHour ==
    /\ pc = "s_loop"
    /\ hours # <<>>
    /\ LET picks_ == RowsOfHour(picks.rows, Head(hours))
           resume == IF Tail(hours) = <<>> THEN "s_assemble" ELSE "s_loop"
       IN  IF NRows(picks_) = 0
           THEN /\ pc' = resume
                /\ UNCHANGED <<calls, catalogs, event_idx0, error>>
           ELSE \/ \E r \in AssociationResults(picks_, event_idx0, GlobalConfig) :
                     /\ calls' = Append(calls, Call(picks_, event_idx0, TRUE, r.catalog, <<>>))
                     /\ event_idx0' = NextOffset(event_idx0, r.catalog)
                     /\ catalogs' = catalogs \o r.catalog
                     /\ pc' = resume
                     /\ error' = error
                \/ /\ calls' = Append(calls, Call(picks_, event_idx0, FALSE, <<>>, <<>>))
                   /\ pc' = OnAssociationError(resume)
                   /\ error' = IF pc' = "raised" THEN "AssociationError" ELSE error
                   /\ UNCHANGED <<catalogs, event_idx0>>
    /\ hours' = Tail(hours)
    /\ UNCHANGED <<producer, bus, route, dataPicks, dataStations, inputConfig, heap,
                   configRef, stations, picks, assignments, handed, response>>

StreamAssemble ==
    /\ pc = "s_assemble"
    /\ catalogs' = StreamCatalog(catalogs, GlobalConfig)
    /\ pc' = "s_publish"
    /\ UNCHANGED <<producer, bus, route, dataPicks, dataStations, inputConfig, heap,
                   configRef, stations, picks, hours, event_idx0, assignments, calls,
                   handed, response, error>>

Message(event) == [topic |-> "gmma_events", key |-> event.time, value |-> event]

\* one pass of `for event in catalogs: producer.send(...)`
StreamPublish ==
    /\ pc = "s_publish"
    /\ Len(handed) < Len(catalogs)
    /\ IF producer = "undefined"
       THEN /\ Raise("NameError")
            /\ UNCHANGED <<bus, handed>>
       ELSE /\ handed' = Append(handed, Message(catalogs[Len(handed) + 1]))
            /\ \/ /\ bus' = Append(bus, Message(catalogs[Len(handed) + 1]))
                  /\ UNCHANGED <<pc, error>>
               \/ /\ Raise("KafkaError")
                  /\ bus' = bus
    /\ UNCHANGED <<producer, route, dataPicks, dataStations, inputConfig, heap,
                   configRef, stations, picks, hours, event_idx0, catalogs, assignments,
                   calls, response>>

StreamReturn ==
    /\ pc = "s_publish"
    /\ Len(handed) = Len(catalogs)
    /\ response' = [kind |-> "list", catalog |-> catalogs, picks |-> <<>>]
    /\ pc' = "done"
    /\ UNCHANGED <<producer, bus, route, dataPicks, dataStations, inputConfig, heap,
                   configRef, stations, picks, hours, event_idx0, catalogs, assignments,
                   calls, handed, error>>

----------------------------------------------------------------------------
(* POST /predict *)

PredictParse ==
    /\ pc = "p_parse"
    /\ configRef' = DataRef
    /\ stations' = dataStations
    /\ LET df == PickFrame(dataPicks)
       IN  IF "timestamp" \notin df.columns
           THEN /\ Raise("KeyError")
                /\ picks' = df
           ELSE /\ picks' = [columns |-> df.columns, rows |-> ParseTimestamps(df.rows)]
                /\ pc' = "p_default"
                /\ error' = error
    /\ UNCHANGED <<producer, bus, route, dataPicks, dataStations, inputConfig, heap,
                   hours, event_idx0, catalogs, assignments, calls, handed, response>>

PredictDefaultConfig ==
    /\ pc = "p_default"
    /\ heap' = CallDefaultConfig(heap, configRef).heap
    /\ configRef' = CallDefaultConfig(heap, configRef).ret
    /\ pc' = "p_geometry"
    /\ UNCHANGED <<producer, bus, route, dataPicks, dataStations, inputConfig, stations,
                   picks, hours, event_idx0, catalogs, assignments, calls, handed,
                   response, error>>

PredictGeometry ==
    /\ pc = "p_geometry"
    /\ IF ~({"latitude", "longitude", "elevation(m)"} \subseteq Columns(stations))
       THEN /\ Raise("AssertionError")
            /\ UNCHANGED <<heap, stations>>
       ELSE /\ heap' = [heap EXCEPT ![configRef] = FillGeometry(@, stations)]
            /\ stations' = ProjectStations(stations, heap'[configRef])
            /\ pc' = "p_start"
            /\ error' = error
    /\ UNCHANGED <<producer, bus, route, dataPicks, dataStations, inputConfig, configRef,
                   picks, hours, event_idx0, catalogs, assignments, calls, handed,
                   response>>

PredictStart ==
    /\ pc = "p_start"
    /\ IF NRows(picks.rows) = 0
       THEN /\ response' = [kind |-> "list", catalog |-> <<>>, picks |-> <<>>]
            /\ pc' = "done"
            /\ UNCHANGED <<picks, hours, event_idx0, catalogs, assignments>>
       ELSE /\ event_idx0' = 0
            /\ assignments' = <<>>
            /\ response' = response
            /\ IF SingleChunk(NRows(picks.rows))
               THEN /\ pc' = "p_single"
                    /\ UNCHANGED <<picks, hours, catalogs>>
               ELSE /\ catalogs' = <<>>
                    /\ picks' = [columns |-> picks.columns \cup {"time_idx"},
                                 rows |-> WithTimeIdx(picks.rows)]
                    /\ hours' = SortedKeys(HoursOf(WithTimeIdx(picks.rows)))
                    /\ pc' = IF hours' = <<>> THEN "p_assemble" ELSE "p_loop"
    /\ UNCHANGED <<producer, bus, route, dataPicks, dataStations, inputConfig, heap,
                   configRef, stations, calls, handed, error>>

PredictAssociateAll ==
    /\ pc = "p_single"
    /\ \/ \E r \in AssociationResults(picks.rows, event_idx0, heap[configRef]) :
            /\ calls' = Append(calls, Call(picks.rows, event_idx0, TRUE, r.catalog,
                                           r.assignments))
            /\ catalogs' = r.catalog
            /\ assignments' = r.assignments
            /\ event_idx0' = NextOffset(event_idx0, r.catalog)
            /\ pc' = "p_assemble"
            /\ error' = error
       \/ /\ calls' = Append(calls, Call(picks.rows, event_idx0, FALSE, <<>>, <<>>))
          /\ pc' = OnAssociationError("p_assemble")
          /\ error' = IF pc' = "raised" THEN "AssociationError" ELSE error
          /\ UNCHANGED <<catalogs, assignments, event_idx0>>
    /\ UNCHANGED <<producer, bus, route, dataPicks, dataStations, inputConfig, heap,
                   configRef, stations, picks, hours, handed, response>>

PredictAssociateHour ==
    /\ pc = "p_loop"
    /\ hours # <<>>
    /\ LET picks_ == RowsOfHour(picks.rows, Head(hours))
           resume == IF Tail(hours) = <<>> THEN "p_assemble" ELSE "p_loop"
       IN  IF NRows(picks_) = 0
           THEN /\ pc' = resume
                /\ UNCHANGED <<calls, catalogs, assignments, event_idx0, error>>
           ELSE \/ \E r \in AssociationResults(picks_, event_idx0, heap[configRef]) :
                     /\ calls' = Append(calls, Call(picks_, event_idx0, TRUE, r.catalog,
                                                    r.assignments))
                     /\ event_idx0' = NextOffset(event_idx0, r.catalog)
                     /\ catalogs' = catalogs \o r.catalog
                     /\ assignments' = assignments \o r.assignments
                     /\ pc' = resume
                     /\ error' = error
                \/ /\ calls' = Append(calls, Call(picks_, event_idx0, FALSE, <<>>, <<>>))
                   /\ pc' = OnAssociationError(resume)
                   /\ error' = IF pc' = "raised" THEN "AssociationError" ELSE error
                   /\ UNCHANGED <<catalogs, assignments, event_idx0>>
    /\ hours' = Tail(hours)
    /\ UNCHANGED <<producer, bus, route, dataPicks, dataStations, inputConfig, heap,
                   configRef, stations, picks, handed, response>>

\* the catalog, the join and the return; catalogs["event_idx"] = range(event_idx0)
\* needs as many values as the catalog has rows
PredictFinish ==
    /\ pc = "p_assemble"
    /\ IF event_idx0 # Len(catalogs)
       THEN /\ Raise("ValueError")
            /\ UNCHANGED <<catalogs, response>>
       ELSE /\ catalogs' = PredictCatalog(catalogs, heap[configRef])
            /\ response' = [kind |-> "dict", catalog |-> catalogs',
                            picks |-> PicksGamma(picks.rows, assignments)]
            /\ pc' = "done"
            /\ error' = error
    /\ UNCHANGED <<producer, bus, route, dataPicks, dataStations, inputConfig, heap,
                   configRef, stations, picks, hours, event_idx0, assignments, calls,
                   handed>>

----------------------------------------------------------------------------
(* Specifications *)

Next ==
    \/ ConnectK8s
    \/ ConnectLocal
    \/ ReceiveStream
    \/ ReceivePredict
    \/ StreamStart
    \/ StreamAssociateAll
    \/ StreamAssociateHour
    \/ StreamAssemble
    \/ StreamPublish
    \/ StreamReturn
    \/ PredictParse
    \/ PredictDefaultConfig
    \/ PredictGeometry
    \/ PredictStart
    \/ PredictAssociateAll
    \/ PredictAssociateHour
    \/ PredictFinish

\* the whole service: module load, then one request on either route
Spec == Init /\ [][Next]_vars

\* /predict up to the completed configuration, for every request configuration
InitConfig ==
    /\ pc = "p_parse"
    /\ producer = "connected"
    /\ route = "predict"
    /\ dataPicks = <<[n |-> 1, timestamp |-> <<0, 23, 30>>]>>
    /\ dataStations \in StationInputs
    /\ inputConfig \in ConfigInputs
    /\ heap = [r \in {DataRef, CopyRef} |-> IF r = DataRef THEN inputConfig ELSE EmptyDict]
    /\ configRef = DataRef
    /\ Blank

NextConfig ==
    \/ PredictParse
    \/ PredictDefaultConfig
    \/ PredictGeometry

SpecConfig == InitConfig /\ [][NextConfig]_vars

----------------------------------------------------------------------------
(* Vocabulary of the properties *)

Terminal == pc \in {"done", "raised"}

\* every chunk of the run has been associated
Associated ==
    \/ pc \in {"s_assemble", "s_publish", "p_assemble"}
    \/ pc = "done" /\ ListLen(dataPicks) > 0
    \/ pc = "raised" /\ error \in {"NameError", "KafkaError", "ValueError"}

RECURSIVE Flatten(_)
Flatten(ss) == IF ss = <<>> THEN <<>> ELSE Head(ss) \o Flatten(Tail(ss))

\* the catalog rows / the assignment rows association() returned, in call order
ReturnedEvents == Flatten([k \in DOMAIN calls |-> calls[k].catalog])
ReturnedAssignments == Flatten([k \in DOMAIN calls |-> calls[k].assignments])

\* the request's pick table: index of the first row and size of each block
InputBlocks == [i \in DOMAIN dataPicks |->
                  [first |-> SumSeq([j \in 1..(i - 1) |-> dataPicks[j].n]),
                   n |-> dataPicks[i].n,
                   timestamp |-> dataPicks[i].timestamp]]

\* a timestamp text truncated to the hour, and its place in time
HourOfText(text) == <<text[1], text[2]>>
Chrono(hourText) == hourText[1] * 24 + hourText[2]

Spans(rows) == {<<rows[i].first, rows[i].n>> : i \in DOMAIN rows}

\* the input timestamp text of the pick with DataFrame index p
TextOfPick(p) ==
    LET b == CHOOSE i \in DOMAIN InputBlocks :
                 InputBlocks[i].first <= p /\ p < InputBlocks[i].first + InputBlocks[i].n
    IN  InputBlocks[b].timestamp

----------------------------------------------------------------------------
(* C1: the offset handed to the k-th association() call is the number of    *)
(* catalog rows the calls before it returned (0 for the first); with an     *)
(* associator that numbers its events from the offset, the events of the    *)
(* run are numbered 0..N-1 in catalog order, and on /predict the event_idx  *)
(* column range(event_idx0) has one entry per catalog row and carries, for  *)
(* each row, the number the associator issued for that event.               *)
C1_OffsetsAndIndices ==
    /\ \A k \in DOMAIN calls :
          calls[k].offset = SumSeq([j \in 1..(k - 1) |-> Len(calls[j].catalog)])
    /\ error # "ValueError"
    /\ Associated =>
          /\ Len(catalogs) = Len(ReturnedEvents)
          /\ \A i \in DOMAIN ReturnedEvents : ReturnedEvents[i].issued = i - 1
    /\ (pc = "done" /\ route = "predict") =>
          /\ Len(response.catalog) = Len(ReturnedEvents)
          /\ \A i \in DOMAIN response.catalog :
                /\ response.catalog[i].event_idx = i - 1
                /\ response.catalog[i].event_idx = ReturnedEvents[i].issued
                /\ response.catalog[i].time = from_seconds(ReturnedEvents[i].time_s)

C1_Witness ==
    /\ pc = "done" /\ route = "predict"
    /\ Len(calls) = 3
    /\ Len(calls[1].catalog) = 2 /\ Len(calls[2].catalog) = 1 /\ Len(calls[3].catalog) = 2
    /\ calls[3].offset = 3
    /\ Len(response.catalog) = 5

(* C2: a non-empty pick set of fewer than 5000 picks gets exactly one       *)
(* association() call holding all picks; a pick set of 5000 or more gets    *)
(* exactly one call per distinct hour present among the timestamps, in      *)
(* ascending chronological order, each call holding exactly the picks of    *)
(* its hour.                                                                *)
C2_Chunking ==
    Associated =>
        LET blocks == InputBlocks
            hourOf == [i \in DOMAIN blocks |-> HourOfText(blocks[i].timestamp)]
            blockAt(p) == CHOOSE i \in DOMAIN blocks : blocks[i].first = p
            callHour == [k \in DOMAIN calls |-> hourOf[blockAt(calls[k].picks[1].first)]]
        IN  IF ListLen(dataPicks) < CHUNK_LIMIT
            THEN /\ Len(calls) = 1
                 /\ Spans(calls[1].picks) = Spans(blocks)
            ELSE /\ Len(calls) = Cardinality(Range(hourOf))
                 /\ \A k \in DOMAIN calls :
                       /\ k > 1 => Chrono(callHour[k - 1]) < Chrono(callHour[k])
                       /\ Spans(calls[k].picks) =
                             {<<blocks[i].first, blocks[i].n>> :
                                 i \in {j \in DOMAIN blocks : hourOf[j] = callHour[k]}}

C2_Witness ==
    /\ pc = "done"
    /\ ListLen(dataPicks) = CHUNK_LIMIT
    /\ Len(calls) = 2
    /\ Chrono(HourOfText(dataPicks[1].timestamp)) > Chrono(HourOfText(dataPicks[2].timestamp))

(* C3: on /predict with a non-empty pick table every input pick is exactly  *)
(* one row of the returned pick table, in the input order and with its      *)
(* timestamp; a pick with an assignment row carries that row's event index  *)
(* and probability, a pick without one is kept with event index -1.         *)
C3_EveryPickOnce ==
    (pc = "done" /\ route = "predict" /\ ListLen(dataPicks) > 0) =>
        LET out == response.picks
        IN  /\ out # <<>>
            /\ out[1].first = 0
            /\ \A i \in DOMAIN out :
                  /\ out[i].n >= 1
                  /\ out[i].first + out[i].n =
                        (IF i = Len(out) THEN ListLen(dataPicks) ELSE out[i + 1].first)
                  /\ out[i].timestamp = TextOfPick(out[i].first)
                  /\ out[i].timestamp = TextOfPick(out[i].first + out[i].n - 1)
                  /\ \/ /\ out[i].event_idx = -1
                        /\ \A a \in Range(ReturnedAssignments) :
                              a.pick_idx < out[i].first \/ a.pick_idx >= out[i].first + out[i].n
                     \/ /\ out[i].n = 1
                        /\ \E a \in Range(ReturnedAssignments) :
                              /\ a.pick_idx = out[i].first
                              /\ a.event_idx = out[i].event_idx
                              /\ a.prob_gmma = out[i].prob_gmma

C3_Witness ==
    /\ pc = "done" /\ route = "predict"
    /\ ListLen(dataPicks) > CHUNK_LIMIT
    /\ \E i, j \in DOMAIN response.picks :
          /\ response.picks[i].event_idx = -1 /\ response.picks[i].n > 1
          /\ response.picks[j].event_idx = 2 /\ response.picks[j].first > 0

(* C4: an empty pick list is not an error on either route: the request      *)
(* completes without raising, with an empty catalog and no assignments, no  *)
(* association() call and no message on the bus.                            *)
C4_EmptyInputCompletes ==
    (route # "none" /\ ListLen(dataPicks) = 0) =>
        /\ pc # "raised"
        /\ calls = <<>>
        /\ bus = <<>>
        /\ pc = "done" => (response.catalog = <<>> /\ response.picks = <<>>)

(* C5: when association() fails for a chunk the run is aborted: no later    *)
(* chunk is passed to association(), nothing is returned to the caller and  *)
(* nothing of the run is published.                                         *)
C5_FailureAborts ==
    \A k \in DOMAIN calls :
        ~calls[k].ok =>
            /\ k = Len(calls)
            /\ pc = "raised"
            /\ error = "AssociationError"
            /\ response = NoResponse
            /\ bus = <<>>

C5_Witness ==
    /\ route = "stream"
    /\ Len(calls) = 2
    /\ Len(calls[1].catalog) = 2
    /\ ~calls[2].ok
    /\ hours # <<>>
    /\ pc = "raised"

(* C6: a /predict_stream run that completes association publishes exactly   *)
(* one message to gmma_events per catalog entry and nothing else, keyed by  *)
(* the entry's time, with the catalog record as value, in catalog order,    *)
(* and none before the last chunk is associated.                            *)
C6_PublishedOncePerEntry ==
    /\ (handed # <<>>) => (route = "stream" /\ Associated)
    /\ (route = "stream" /\ Associated /\ Terminal) =>
          handed = [i \in DOMAIN catalogs |->
                       [topic |-> "gmma_events", key |-> catalogs[i].time,
                        value |-> catalogs[i]]]

(* C7: a failing publish step (a send that raises, a producer that was      *)
(* never connected) does not fail the request: it still returns the whole   *)
(* catalog, and every event is still handed to the producer.                *)
C7_PublishFailureKeepsResponse ==
    (route = "stream" /\ Associated /\ Terminal) =>
        /\ pc = "done"
        /\ response.catalog = catalogs
        /\ Len(handed) = Len(catalogs)

----------------------------------------------------------------------------
(* Configuration properties, checked under SpecConfig *)

ConfigCompleted == pc \in {"p_geometry", "p_start"}

\* the default the specification gives for a parameter, degree2km being d
StatedDefault(k, d) ==
    CASE k = "degree2km" -> d
      [] k = "use_amplitude" -> TRUE
      [] k = "use_dbscan" -> TRUE
      [] k = "dbscan_eps" -> 6
      [] k = "dbscan_min_samples" -> 3
      [] k = "oversample_factor" -> 10
      [] k = "min_picks_per_eq" -> 10
      [] k = "dims" -> <<"x(km)", "y(km)", "z(km)">>

DefaultsAre(d) ==
    ConfigCompleted =>
        \A k \in DefaultKeys :
            /\ k \in DOMAIN heap[configRef]
            /\ heap[configRef][k] =
                  (IF k \in DOMAIN inputConfig THEN inputConfig[k] ELSE StatedDefault(k, d))

StationExtent(col) ==
    LET vals == {dataStations[i][col] : i \in DOMAIN dataStations}
    IN  <<CHOOSE lo \in vals : \A v \in vals : lo <= v,
          CHOOSE hi \in vals : \A v \in vals : hi >= v>>

BoundInEffect(key, col) ==
    IF key \in DOMAIN inputConfig THEN inputConfig[key] ELSE StationExtent(col)

Midpoint(lim) == (lim[1] + lim[2]) \div 2

(* C8 as stated: the configuration completion leaves the caller's partial   *)
(* configuration object with exactly the keys and values it had.            *)
C8_InputUntouched ==
    ConfigCompleted => heap[DataRef] = inputConfig

(* C8 as amended: the completion is done in place, in the caller's own      *)
(* configuration object, which is also the object the handler goes on       *)
(* with: every key the caller sent keeps its value, none is removed, and    *)
(* the missing parameters are added to that object.                         *)
C8_CompletedInPlace ==
    ConfigCompleted =>
        /\ configRef = DataRef
        /\ heap[CopyRef] = EmptyDict
        /\ \A k \in DOMAIN inputConfig :
              k \in DOMAIN heap[DataRef] /\ heap[DataRef][k] = inputConfig[k]
        /\ DefaultKeys \subseteq DOMAIN heap[DataRef]
        /\ pc = "p_start" => (BoundKeys \cup LocalKeys) \subseteq DOMAIN heap[DataRef]

C8_Witness ==
    /\ pc = "p_start"
    /\ DOMAIN inputConfig = {"use_dbscan", "xlim_degree"}
    /\ DOMAIN heap[DataRef] = DefaultKeys \cup BoundKeys \cup LocalKeys
    /\ heap[DataRef]["use_dbscan"] = FALSE

(* C9 as stated: each of the eight parameters that was absent gets its      *)
(* fixed default, degree2km = 112.195 among them, and each that was present *)
(* keeps the caller's value.                                                *)
C9_StatedDefaults == DefaultsAre(112195)

(* C9 as amended: the same with the default degree2km = 111.195.           *)
C9_Defaults == DefaultsAre(111195)

C9_Witness ==
    /\ pc = "p_geometry"
    /\ DOMAIN inputConfig = {"dbscan_eps", "dims", "center"}
    /\ heap[configRef]["degree2km"] = 111195
    /\ heap[configRef]["dbscan_eps"] = 8
    /\ heap[configRef]["dbscan_min_samples"] = 3

(* C10 as stated: for a configuration lacking center, whatever else it      *)
(* supplies, the derived center is the midpoint of the station longitude    *)
(* and latitude extents.                                                    *)
C10_CenterOfStations ==
    (pc = "p_start" /\ "center" \notin DOMAIN inputConfig) =>
        heap[configRef]["center"] =
            <<Midpoint(StationExtent("longitude")), Midpoint(StationExtent("latitude"))>>

(* C10 as amended: for a configuration lacking center the derived center   *)
(* is the midpoint of the spatial bounds in effect on each axis: the        *)
(* caller's xlim_degree / ylim_degree where supplied, the station extent    *)
(* where not.                                                               *)
C10_CenterOfBounds ==
    (pc = "p_start" /\ "center" \notin DOMAIN inputConfig) =>
        heap[configRef]["center"] =
            <<Midpoint(BoundInEffect("xlim_degree", "longitude")),
              Midpoint(BoundInEffect("ylim_degree", "latitude"))>>

C10_Witness ==
    /\ pc = "p_start"
    /\ "center" \notin DOMAIN inputConfig
    /\ "xlim_degree" \in DOMAIN inputConfig
    /\ "ylim_degree" \notin DOMAIN inputConfig
    /\ Len(dataStations) = 2
    /\ dataStations[1] # dataStations[2]
    /\ heap[configRef]["center"] = <<-156000, 19500>>

====
